---- MODULE Spec2Model ----
(***************************************************************************)
(* Verification model of the meeting-analysis service:                     *)
(*   - segment fusion   (src/src/models/transcription.py)                  *)
(*   - task registry    (src/src/api/tasks.py)                             *)
(*   - meeting pipeline (src/src/api/pipeline.py, src/src/api/main.py)     *)
(*   - agent orchestrator (src/src/agents/orchestrator.py)                 *)
(* Times are integers (ticks) where the code uses float seconds.           *)
(***************************************************************************)
EXTENDS Integers, Sequences, FiniteSets, TLC

VARIABLES
    transcription_segments, \* fusion input: spans of the transcriber
    diarization_segments,   \* fusion input: intervals of the diarizer
    merged_segments,        \* fusion output
    fpc,                    \* "called" | "returned"
    tasks,                  \* TaskManager.tasks: task id -> task entry
    files,                  \* results_dir: task id -> result file
    now,                    \* the wall clock, in ticks
    call,                   \* the last call the registry harness made (history)
    issued,                 \* the task ids create_task has returned (history)
    ncreated,               \* the number of create_task calls (history)
    nops,                   \* the number of calls made by the registry harness
    context_agent,          \* AgentOrchestrator.context_agent is set
    runs,                   \* the background tasks: run -> its position and locals
    summary_results,        \* _generate_executive_summary: its argument results
    summary,                \* _generate_executive_summary: what it returned
    emotion_segments,       \* detect_emotions_for_segments: its argument segments
    annotated_segments,     \* detect_emotions_for_segments: what it returned or raised
    uploads,                \* settings.upload_dir: the files the upload endpoint stored
    response                \* the last HTTP response of the API (history)

fusionVars == <<transcription_segments, diarization_segments, merged_segments, fpc>>
registryVars == <<tasks, files, now, call, issued, ncreated, nops>>

programVars == <<context_agent, runs>>

summaryVars == <<summary_results, summary>>
emotionVars == <<emotion_segments, annotated_segments>>
apiVars == <<uploads, response>>

vars == <<fusionVars, registryVars, programVars, summaryVars, emotionVars, apiVars>>

(***************************************************************************)
(* Bounds of the model                                                     *)
(***************************************************************************)
Times == 0..2
MaxTrans == 2
MaxDia == 2

Speakers == {"A", "B"}
Texts == {"hello", "bye"}
UNKNOWN == "UNKNOWN"

Max(a, b) == IF a >= b THEN a ELSE b
Min(a, b) == IF a <= b THEN a ELSE b

SeqsUpTo(S, n) == UNION {[1..k -> S] : k \in 0..n}

\* spans of the transcriber (zero-duration spans are legal)
TransSpans == {t \in [start : Times, end : Times, text : Texts] : t.start <= t.end}
\* speaker turns of the diarizer
DiaIntervals == {d \in [start : Times, end : Times, speaker : Speakers] : d.start < d.end}


(***************************************************************************)
(* Task registry: TaskManager (src/src/api/tasks.py)                       *)
(***************************************************************************)
TicksPerSecond == 2
MaxClock == 2
MaxOps == 3

\* tasks.py:35, file_id[:8]
PrefixLen == 8

F1 == <<1, 1, 1, 1, 1, 1, 1, 1, 1>>
F2 == <<2, 2, 2, 2, 2, 2, 2, 2, 2>>
FileIds == {F1, F2}

None == "None"
NoTaskId == [ts |-> -1, fid |-> <<>>]
\* the None of an Optional[int]
NoProgress == -1

Statuses == {"pending", "processing", "completed", "failed"}

\* tasks.py:35, datetime.now().strftime('%Y%m%d_%H%M%S'): the time cut to whole seconds
strftime(t) == t \div TicksPerSecond

\* tasks.py:35, f"task_{...}_{file_id[:8]}"
make_task_id(t, file_id) ==
    [ts |-> strftime(t), fid |-> SubSeq(file_id, 1, Min(Len(file_id), PrefixLen))]

TaskIds == {make_task_id(t, f) : t \in 0..MaxClock, f \in FileIds}

Put(f, k, v) == [x \in DOMAIN f \cup {k} |-> IF x = k THEN v ELSE f[x]]

\* tasks.py:25-48
create_task(tsk, file_id, t) ==
    LET task_id == make_task_id(t, file_id)
    IN [tasks |-> Put(tsk, task_id,
                      [task_id |-> task_id,
                       file_id |-> file_id,
                       status |-> "pending",
                       progress |-> 0,
                       created_at |-> t,
                       updated_at |-> t,
                       error |-> None]),
        task_id |-> task_id]

\* an update that indexes the table without looking the id up first (KeyError)
update_status_unguarded(tsk, task_id, status, progress, error, t) ==
    IF task_id \notin DOMAIN tsk
    THEN [tasks |-> tsk, raised |-> TRUE]
    ELSE [tasks |-> [tsk EXCEPT ![task_id] =
                        [@ EXCEPT !.status = status,
                                  !.updated_at = t,
                                  !.progress = IF progress # NoProgress THEN progress ELSE @,
                                  !.error = IF error # None THEN error ELSE @]],
          raised |-> FALSE]

\* an update that tests the truth of progress instead of "is not None"
update_status_truthy(tsk, task_id, status, progress, error, t) ==
    IF task_id \notin DOMAIN tsk
    THEN [tasks |-> tsk, raised |-> FALSE]
    ELSE [tasks |-> [tsk EXCEPT ![task_id] =
                        [@ EXCEPT !.status = status,
                                  !.updated_at = t,
                                  !.progress = IF progress # NoProgress /\ progress # 0
                                               THEN progress ELSE @,
                                  !.error = IF error # None THEN error ELSE @]],
          raised |-> FALSE]

\* tasks.py:50-79
update_status(tsk, task_id, status, progress, error, t) ==
    IF task_id \notin DOMAIN tsk
    THEN [tasks |-> tsk, raised |-> FALSE]
    ELSE [tasks |-> [tsk EXCEPT ![task_id] =
                        [@ EXCEPT !.status = status,
                                  !.updated_at = t,
                                  !.progress = IF progress # NoProgress THEN progress ELSE @,
                                  !.error = IF error # None THEN error ELSE @]],
          raised |-> FALSE]

\* tasks.py:81-91; an Optional is the set of at most one value
get_status(tsk, task_id) == IF task_id \in DOMAIN tsk THEN {tsk[task_id]} ELSE {}

\* the items of dict d under the keys given, one <<key, value>> pair each
RECURSIVE Items(_, _)
Items(d, keys) ==
    IF keys = {} THEN <<>>
    ELSE LET k == CHOOSE x \in keys : TRUE
         IN <<<<k, d[k]>>>> \o Items(d, keys \ {k})

\* tasks.py:105, json.dump(result, f): the text of the file is the sequence of
\* the members of the object. The values of a report are strings, numbers and
\* lists and dicts of them, which JSON writes and reads back as they are.
json_dump(result) == Items(result, DOMAIN result)

\* a reader that keeps the first member of the object only
json_load_first(text) ==
    [k \in {text[i][1] : i \in 1..Min(1, Len(text))} |-> text[1][2]]

\* tasks.py:130, json.load(f): the dict of the members read
json_load(text) ==
    [k \in {text[i][1] : i \in 1..Len(text)} |->
        text[CHOOSE i \in 1..Len(text) : text[i][1] = k][2]]

\* what open() and json.dump() of save_result can do
IoOutcomes == {"ok", "open_failed", "dump_failed"}

\* a save_result that lets the I/O error out
save_result_propagating(fls, task_id, result, io, t) ==
    CASE io = "ok" ->
           [files |-> Put(fls, task_id, [complete |-> TRUE, content |-> json_dump(result), mtime |-> t]),
            raised |-> FALSE]
      [] io = "open_failed" ->
           [files |-> fls, raised |-> TRUE]
      [] io = "dump_failed" ->
           [files |-> Put(fls, task_id,
                          [complete |-> FALSE, content |-> <<>>, mtime |-> t]),
            raised |-> TRUE]

\* tasks.py:93-110; open(.., "w") truncates the file before json.dump writes it
save_result(fls, task_id, result, io, t) ==
    CASE io = "ok" ->
           [files |-> Put(fls, task_id, [complete |-> TRUE, content |-> json_dump(result), mtime |-> t]),
            raised |-> FALSE]
      [] io = "open_failed" ->
           [files |-> fls, raised |-> FALSE]
      [] io = "dump_failed" ->
           [files |-> Put(fls, task_id,
                          [complete |-> FALSE, content |-> <<>>, mtime |-> t]),
            raised |-> FALSE]

\* tasks.py:112-136
get_result(fls, task_id) ==
    IF task_id \notin DOMAIN fls THEN {}
    ELSE IF fls[task_id].complete THEN {json_load(fls[task_id].content)} ELSE {}

NoCall == [op |-> "none", task_id |-> NoTaskId, status |-> None,
           progress |-> NoProgress, error |-> None, raised |-> FALSE]

RegistryInit ==
    /\ tasks = [id \in {} |-> None]
    /\ files = [id \in {} |-> None]
    /\ now = 0
    /\ call = NoCall
    /\ issued = {}
    /\ ncreated = 0
    /\ nops = 0

(***************************************************************************)
(* Agent orchestrator (src/src/agents/orchestrator.py) and meeting         *)
(* pipeline (src/src/api/pipeline.py): data and pure parts                 *)
(***************************************************************************)
MaxSubmits == 1
Runs == 1..MaxSubmits

EmptyDict == [k \in {} |-> None]
\* the None of an Optional[dict]
NoneDict == [is_none |-> TRUE]

\* dict.get(key, default)
Get(d, k, default) == IF k \in DOMAIN d THEN d[k] ELSE default

\* the truth value of a str
Truthy(x) == x # "" /\ x # None

\* the message of an exception raised by a leaf model or an agent
Boom == "boom"
\* pipeline.py:100
ValidationMessage == "Audio validation failed"

\* the stage names a message text contains: str(e) is the text of the
\* exception alone (main.py:286), and only the text of pipeline.py:100 names
\* the stage that raised it
StagesNamedIn(msg) == IF msg = ValidationMessage THEN {"validate"} ELSE {}

\* what the agents return when they do not raise
ActionsPayload == [action_items |-> <<"a1", "a2">>, decisions |-> <<"d1">>]
SentimentPayload == [overall_sentiment |-> [mood |-> "positive", tone |-> "calm"]]
ContextPayload == [recurring_themes |-> <<"t1">>]

\* orchestrator.py:116, 125, 154
ErrorMarker(msg) == [error |-> msg]

\* orchestrator.py:66-76 with the arguments of pipeline.py:47-55
AgentOrchestrator_init(enable_context_agent, chroma_persist_dir) ==
    enable_context_agent /\ chroma_persist_dir # None

\* config.py:61-64
chroma_persist_dir == "./data/chroma_db"

\* orchestrator.py:195 and 203, the lengths of the slices [:5] and [:3]
TopActions == 5
TopDecisions == 3

\* list[:n]
Prefix(list, n) == SubSeq(list, 1, Min(Len(list), n))

NoInsights == [key_highlights |-> <<>>, fields |-> EmptyDict]

\* an action block that writes its highlight and its top items whatever it found
action_insights_unconditional(results) ==
    LET actions == Get(results, "actions", EmptyDict)
        action_items == Get(actions, "action_items", <<>>)
    IN [key_highlights |-> <<[n |-> Len(action_items), what |-> "action items identified"]>>,
        fields |-> [top_actions |-> Prefix(action_items, TopActions)]]

\* orchestrator.py:188-195
action_insights(results) ==
    LET actions == Get(results, "actions", EmptyDict)
        action_items == Get(actions, "action_items", <<>>)
    IN IF action_items # <<>>
       THEN [key_highlights |-> <<[n |-> Len(action_items), what |-> "action items identified"]>>,
             fields |-> [top_actions |-> Prefix(action_items, TopActions)]]
       ELSE NoInsights

\* a decision block that counts the decisions it kept
decision_insights_counting_kept(results) ==
    LET actions == Get(results, "actions", EmptyDict)
        decisions == Get(actions, "decisions", <<>>)
    IN IF decisions # <<>>
       THEN [key_highlights |-> <<[n |-> Len(Prefix(decisions, TopDecisions)),
                                   what |-> "decisions made"]>>,
             fields |-> [top_decisions |-> Prefix(decisions, TopDecisions)]]
       ELSE NoInsights

\* orchestrator.py:197-203
decision_insights(results) ==
    LET actions == Get(results, "actions", EmptyDict)
        decisions == Get(actions, "decisions", <<>>)
    IN IF decisions # <<>>
       THEN [key_highlights |-> <<[n |-> Len(decisions), what |-> "decisions made"]>>,
             fields |-> [top_decisions |-> Prefix(decisions, TopDecisions)]]
       ELSE NoInsights

\* orchestrator.py:205-215
sentiment_insights(results) ==
    LET sentiment == Get(results, "sentiment", EmptyDict)
        overall_sentiment == Get(sentiment, "overall_sentiment", EmptyDict)
        mood == Get(overall_sentiment, "mood", "unknown")
        tone == Get(overall_sentiment, "tone", "unknown")
    IN IF overall_sentiment # EmptyDict
       THEN [key_highlights |-> <<[n |-> 0, what |-> "Meeting mood and tone",
                                   mood |-> mood, tone |-> tone]>>,
             fields |-> [overall_mood |-> mood, overall_tone |-> tone]]
       ELSE NoInsights

\* orchestrator.py:217-224
context_insights(results) ==
    LET context == Get(results, "context", EmptyDict)
        recurring == IF context # EmptyDict /\ ~Truthy(Get(context, "error", None))
                     THEN Get(context, "recurring_themes", <<>>) ELSE <<>>
    IN IF recurring # <<>>
       THEN [key_highlights |-> <<[n |-> Len(recurring), what |-> "recurring themes identified"]>>,
             fields |-> EmptyDict]
       ELSE NoInsights

\* orchestrator.py:171-226 (timestamp and participants are not carried by this model)
generate_executive_summary(results) ==
    LET a == action_insights(results)
        d == decision_insights(results)
        s == sentiment_insights(results)
        c == context_insights(results)
    IN  [meeting_id |-> Get(results, "meeting_id", NoTaskId),
         key_highlights |-> a.key_highlights \o d.key_highlights
                            \o s.key_highlights \o c.key_highlights]
        @@ a.fields @@ d.fields @@ s.fields

\* pipeline.py:190-242 (the fields computed from the segments are not carried)
format_results(agent_results, task_id) ==
    [meeting_id |-> task_id,
     action_items |-> Get(Get(agent_results, "actions", EmptyDict), "action_items", <<>>),
     decisions |-> Get(Get(agent_results, "actions", EmptyDict), "decisions", <<>>),
     overall_sentiment |->
         Get(Get(agent_results, "sentiment", EmptyDict), "overall_sentiment", EmptyDict),
     context |-> Get(agent_results, "context", NoneDict),
     executive_summary |-> Get(agent_results, "executive_summary", EmptyDict)]

\* audio files handed to validate_audio: durations are in milliseconds
NoAudio == [exists |-> FALSE, readable |-> FALSE, duration |-> -1]
AudioInputs ==
    {[exists |-> FALSE, readable |-> FALSE, duration |-> 0],
     [exists |-> TRUE, readable |-> FALSE, duration |-> 0]}
    \cup [exists : {TRUE}, readable : {TRUE}, duration : {999, 1000, 7200000, 7200001}]

\* config.py:46
max_audio_length_minutes == 120

\* a validation without the one-second floor
validate_audio_no_floor(audio, max_duration_minutes) ==
    IF ~audio.exists THEN FALSE
    ELSE IF ~audio.readable THEN FALSE
    ELSE IF audio.duration > max_duration_minutes * 60 * 1000 THEN FALSE
    ELSE TRUE

\* loader.py:103-142
validate_audio(audio, max_duration_minutes) ==
    IF ~audio.exists THEN FALSE
    ELSE IF ~audio.readable THEN FALSE
    ELSE IF audio.duration > max_duration_minutes * 60 * 1000 THEN FALSE
    ELSE IF audio.duration < 1000 THEN FALSE
    ELSE TRUE

\* orchestrator.py:109-116, the action phase; raises: action_agent.process raises
actions_phase(results, raises) ==
    [results |-> Put(results, "actions", IF raises THEN ErrorMarker(Boom) ELSE ActionsPayload),
     raised |-> FALSE]

\* a sentiment phase without its try/except
sentiment_phase_unwrapped(results, raises) ==
    IF raises THEN [results |-> results, raised |-> TRUE]
    ELSE [results |-> Put(results, "sentiment", SentimentPayload), raised |-> FALSE]

\* orchestrator.py:118-125, the sentiment phase
sentiment_phase(results, raises) ==
    [results |-> Put(results, "sentiment",
                     IF raises THEN ErrorMarker(Boom) ELSE SentimentPayload),
     raised |-> FALSE]

\* context_agent.py:202, the default of k
TopK == 5

\* the summaries of earlier meetings that the persisted store already holds
PriorMeetings == 6
PriorDocs == {100 + i : i \in 1..PriorMeetings}

\* the documents of the vector store: the earlier ones and one per run that
\* has added its meeting (context_agent.py:251 add_texts gives no ids, so every
\* add is a new document)
vector_store(rs) ==
    PriorDocs \cup {q \in DOMAIN rs : \E i \in 1..Len(rs[q].store_log) : rs[q].store_log[i] = "add"}

\* the similarity of a stored document to the query of run me: the query is the
\* summary of the current meeting (context_agent.py:140-143), so a document of
\* that same run would be the closest; the others have distinct distances
Similarity(doc, me) == IF doc = me THEN 1000 ELSE doc

\* context_agent.py:216, vector_store.similarity_search(query, k=k): the k closest
similarity_search(store, me, k) ==
    {d \in store : Cardinality({e \in store : Similarity(e, me) > Similarity(d, me)}) < k}

\* a context input that takes the action items of the meeting data
context_input_stale(results) ==
    [action_items |-> Get(results, "action_items", <<>>),
     decisions |-> Get(results, "decisions", <<>>)]

\* orchestrator.py:131-135 (the keys of meeting_data are not carried)
context_input(results) ==
    [action_items |-> Get(results["actions"], "action_items", <<>>),
     decisions |-> Get(results["actions"], "decisions", <<>>)]

\* a context phase that stores the meeting before it asks the store
context_phase_store_first(results, agent, store_context, raises, store_log, store, me) ==
    IF ~agent
    THEN [results |-> results, store_log |-> store_log, raised |-> FALSE,
          context_input |-> NoneDict, retrieved |-> {}]
    ELSE IF store_context
    THEN [results |-> Put(results, "context",
                          IF raises THEN ErrorMarker(Boom) ELSE ContextPayload),
          store_log |-> Append(Append(store_log, "add"), "query"),
          raised |-> FALSE,
          context_input |-> context_input(results),
          retrieved |-> similarity_search(store \cup {me}, me, TopK)]
    ELSE [results |-> Put(results, "context",
                          IF raises THEN ErrorMarker(Boom) ELSE ContextPayload),
          store_log |-> Append(store_log, "query"),
          raised |-> FALSE,
          context_input |-> context_input(results),
          retrieved |-> similarity_search(store, me, TopK)]

\* orchestrator.py:127-154, the context phase. context_agent.process queries the
\* store (context_agent.py:143, 216) before it invokes the LLM (context_agent.py:152);
\* store_meeting adds to it (context_agent.py:251) and swallows its own failures.
\* store: the documents of the vector store; me: the document this run would add.
context_phase(results, agent, store_context, raises, store_log, store, me) ==
    IF ~agent
    THEN [results |-> results, store_log |-> store_log, raised |-> FALSE,
          context_input |-> NoneDict, retrieved |-> {}]
    ELSE IF raises
    THEN [results |-> Put(results, "context", ErrorMarker(Boom)),
          store_log |-> Append(store_log, "query"),
          raised |-> FALSE,
          context_input |-> context_input(results),
          retrieved |-> similarity_search(store, me, TopK)]
    ELSE [results |-> Put(results, "context", ContextPayload),
          store_log |-> IF store_context
                        THEN Append(Append(store_log, "query"), "add")
                        ELSE Append(store_log, "query"),
          raised |-> FALSE,
          context_input |-> context_input(results),
          retrieved |-> similarity_search(store, me, TopK)]

\* a background task nobody has submitted yet
UnusedRun ==
    [pc |-> "unused", task_id |-> NoTaskId, enable_emotion |-> FALSE, enable_context |-> FALSE,
     audio |-> NoAudio, progress_log |-> <<>>, results |-> EmptyDict, store_log |-> <<>>,
     raised_phases |-> {}, result |-> EmptyDict, save_io |-> None, last_status |-> None,
     failed_at |-> None, error |-> None, invoked |-> <<>>, written |-> <<>>,
     context_input |-> NoneDict, retrieved |-> {}]

\* pipeline.py:21-57 and main.py:50-51, before any submission
ProgramIdle ==
    /\ context_agent = AgentOrchestrator_init(TRUE, chroma_persist_dir)
    /\ runs = [r \in Runs |-> UnusedRun]

\* no call of _generate_executive_summary on its own
SummaryIdle ==
    /\ summary_results = EmptyDict
    /\ summary = NoneDict

\* no call of detect_emotions_for_segments on its own
EmotionIdle ==
    /\ emotion_segments = <<>>
    /\ annotated_segments = NoneDict

\* config.py:74: the upload directory exists, and nothing has been uploaded or
\* requested yet
ApiIdle ==
    /\ uploads = {}
    /\ response = NoneDict

(***************************************************************************)
(* Segment fusion: WhisperTranscriber._merge_transcription_diarization     *)
(***************************************************************************)
\* transcription.py:218-220
Overlap(trans_seg, dia_seg) ==
    LET overlap_start == Max(trans_seg.start, dia_seg.start)
        overlap_end == Min(trans_seg.end, dia_seg.end)
    IN Max(0, overlap_end - overlap_start)

\* a fusion that forgets to raise max_overlap: the last overlapping interval wins
RECURSIVE FindSpeakerNoMax(_, _, _, _, _)
FindSpeakerNoMax(trans_seg, dia, i, max_overlap, speaker) ==
    IF i > Len(dia) THEN speaker
    ELSE IF Overlap(trans_seg, dia[i]) > max_overlap
         THEN FindSpeakerNoMax(trans_seg, dia, i + 1, max_overlap, dia[i].speaker)
         ELSE FindSpeakerNoMax(trans_seg, dia, i + 1, max_overlap, speaker)

\* a fusion that compares with >= : the last of several equal overlaps wins
RECURSIVE FindSpeakerGeq(_, _, _, _, _)
FindSpeakerGeq(trans_seg, dia, i, max_overlap, speaker) ==
    IF i > Len(dia) THEN speaker
    ELSE IF Overlap(trans_seg, dia[i]) >= max_overlap
         THEN FindSpeakerGeq(trans_seg, dia, i + 1, Overlap(trans_seg, dia[i]), dia[i].speaker)
         ELSE FindSpeakerGeq(trans_seg, dia, i + 1, max_overlap, speaker)

\* transcription.py:213-224, the inner loop from index i on
RECURSIVE FindSpeaker(_, _, _, _, _)
FindSpeaker(trans_seg, dia, i, max_overlap, speaker) ==
    IF i > Len(dia) THEN speaker
    ELSE LET overlap == Overlap(trans_seg, dia[i])
         IN IF overlap > max_overlap
            THEN FindSpeaker(trans_seg, dia, i + 1, overlap, dia[i].speaker)
            ELSE FindSpeaker(trans_seg, dia, i + 1, max_overlap, speaker)

\* transcription.py:204-231, one pass of the outer loop
MergedSegment(trans_seg, dia) ==
    [start |-> trans_seg.start,
     end |-> trans_seg.end,
     text |-> trans_seg.text,
     speaker |-> FindSpeaker(trans_seg, dia, 1, 0, UNKNOWN)]

\* an outer loop that drops the spans nobody spoke
RECURSIVE MergeLoopDropUnknown(_, _, _, _)
MergeLoopDropUnknown(trans, dia, i, merged) ==
    IF i > Len(trans) THEN merged
    ELSE LET m == MergedSegment(trans[i], dia)
         IN MergeLoopDropUnknown(trans, dia, i + 1,
                IF m.speaker = UNKNOWN THEN merged ELSE Append(merged, m))

\* transcription.py:202-233, the outer loop from index i on
RECURSIVE MergeLoop(_, _, _, _)
MergeLoop(trans, dia, i, merged) ==
    IF i > Len(trans) THEN merged
    ELSE MergeLoop(trans, dia, i + 1, Append(merged, MergedSegment(trans[i], dia)))

\* transcription.py:187-233, one call of _merge_transcription_diarization
Merge ==
    /\ fpc = "called"
    /\ merged_segments' = MergeLoop(transcription_segments, diarization_segments, 1, <<>>)
    /\ fpc' = "returned"
    /\ UNCHANGED <<transcription_segments, diarization_segments, registryVars, programVars,
                   summaryVars, emotionVars, apiVars>>

FusionInit ==
    /\ transcription_segments \in SeqsUpTo(TransSpans, MaxTrans)
    /\ diarization_segments \in SeqsUpTo(DiaIntervals, MaxDia)
    /\ merged_segments = <<>>
    /\ fpc = "called"
    /\ RegistryInit
    /\ ProgramIdle
    /\ SummaryIdle /\ EmotionIdle /\ ApiIdle

FusionNext == Merge

SpecFusion == FusionInit /\ [][FusionNext]_vars

(***************************************************************************)
(* Claims about the fusion                                                 *)
(***************************************************************************)
\* the overlap as the specification states it
StatedOverlap(T, D) ==
    LET lo == IF T.start >= D.start THEN T.start ELSE D.start
        hi == IF T.end <= D.end THEN T.end ELSE D.end
    IN IF hi - lo > 0 THEN hi - lo ELSE 0

MaxOverlap(T, dia) ==
    LET S == {StatedOverlap(T, dia[j]) : j \in 1..Len(dia)} \cup {0}
    IN CHOOSE m \in S : \A o \in S : m >= o

\* C1: every fused span carries the speaker of an interval of maximal overlap,
\* and "UNKNOWN" when the maximal overlap is 0 (also with no intervals at all).
C1_MaxOverlapSpeaker ==
    \A i \in 1..Len(merged_segments) :
        LET T == transcription_segments[i]
            m == MaxOverlap(T, diarization_segments)
        IN IF m = 0
           THEN merged_segments[i].speaker = UNKNOWN
           ELSE \E j \in 1..Len(diarization_segments) :
                   /\ StatedOverlap(T, diarization_segments[j]) = m
                   /\ merged_segments[i].speaker = diarization_segments[j].speaker

\* a span with two overlapping intervals of different overlap and speaker,
\* the larger one second, has been fused
C1_Witness ==
    /\ fpc = "returned"
    /\ \E i \in 1..Len(merged_segments) :
          /\ Len(diarization_segments) = 2
          /\ diarization_segments[1].speaker # diarization_segments[2].speaker
          /\ StatedOverlap(transcription_segments[i], diarization_segments[1]) > 0
          /\ StatedOverlap(transcription_segments[i], diarization_segments[2])
               > StatedOverlap(transcription_segments[i], diarization_segments[1])

FirstMaxIndex(T, dia) ==
    CHOOSE j \in 1..Len(dia) :
        /\ StatedOverlap(T, dia[j]) = MaxOverlap(T, dia)
        /\ \A k \in 1..(j - 1) : StatedOverlap(T, dia[k]) # MaxOverlap(T, dia)

\* C2: among several intervals of the same maximal positive overlap the
\* first one of the diarization list gives the speaker.
C2_TieKeepsFirst ==
    \A i \in 1..Len(merged_segments) :
        LET T == transcription_segments[i]
        IN MaxOverlap(T, diarization_segments) > 0 =>
             merged_segments[i].speaker =
                 diarization_segments[FirstMaxIndex(T, diarization_segments)].speaker

\* the scenario of the specification: span 0-2, intervals [0-1 A, 1-2 B]
C2_Witness ==
    /\ fpc = "returned"
    /\ Len(merged_segments) >= 1
    /\ transcription_segments[1].start = 0 /\ transcription_segments[1].end = 2
    /\ diarization_segments = <<[start |-> 0, end |-> 1, speaker |-> "A"],
                                [start |-> 1, end |-> 2, speaker |-> "B"]>>
    /\ merged_segments[1].speaker = "A"

\* C3: the fusion keeps length and order: there is one utterance per span and
\* the i-th utterance has the start, end and text of the i-th span; the empty
\* list of spans gives the empty list.
C3_OrderLengthPreserved ==
    fpc = "returned" =>
        /\ Len(merged_segments) = Len(transcription_segments)
        /\ \A i \in 1..Len(merged_segments) :
              /\ merged_segments[i].start = transcription_segments[i].start
              /\ merged_segments[i].end = transcription_segments[i].end
              /\ merged_segments[i].text = transcription_segments[i].text

\* two different spans, the first without a speaker, have been fused
C3_Witness ==
    /\ fpc = "returned"
    /\ Len(merged_segments) = 2
    /\ merged_segments[1].speaker = UNKNOWN
    /\ merged_segments[2].speaker # UNKNOWN
    /\ transcription_segments[1] # transcription_segments[2]

\* the empty transcription list has been fused into the empty list
C3_EmptyWitness ==
    fpc = "returned" /\ transcription_segments = <<>> /\ merged_segments = <<>>
\* datetime.now() moves on
Tick ==
    /\ now < MaxClock
    /\ now' = now + 1
    /\ call' = [NoCall EXCEPT !.op = "tick"]
    /\ UNCHANGED <<tasks, files, issued, ncreated, nops, fusionVars, programVars, summaryVars, emotionVars, apiVars>>

StatusArgs == {"processing", "failed"}
ProgressArgs == {NoProgress, 0, 40}
ErrorArgs == {None, "boom"}
Reports == {[meeting_id |-> "m"]}

RegCreateTask ==
    /\ nops < MaxOps
    /\ \E file_id \in FileIds :
          LET r == create_task(tasks, file_id, now)
          IN /\ tasks' = r.tasks
             /\ issued' = issued \cup {r.task_id}
             /\ call' = [NoCall EXCEPT !.op = "create_task", !.task_id = r.task_id]
    /\ ncreated' = ncreated + 1
    /\ nops' = nops + 1
    /\ UNCHANGED <<files, now, fusionVars, programVars, summaryVars, emotionVars, apiVars>>

RegUpdateStatus ==
    /\ nops < MaxOps
    /\ \E task_id \in TaskIds, status \in StatusArgs,
          progress \in ProgressArgs, error \in ErrorArgs :
          LET r == update_status(tasks, task_id, status, progress, error, now)
          IN /\ tasks' = r.tasks
             /\ call' = [op |-> "update_status", task_id |-> task_id, status |-> status,
                         progress |-> progress, error |-> error, raised |-> r.raised]
    /\ nops' = nops + 1
    /\ UNCHANGED <<files, now, issued, ncreated, fusionVars, programVars, summaryVars, emotionVars, apiVars>>

RegSaveResult ==
    /\ nops < MaxOps
    /\ \E task_id \in TaskIds, result \in Reports, io \in IoOutcomes :
          LET r == save_result(files, task_id, result, io, now)
          IN /\ files' = r.files
             /\ call' = [NoCall EXCEPT !.op = "save_result", !.task_id = task_id,
                                       !.raised = r.raised]
    /\ nops' = nops + 1
    /\ UNCHANGED <<tasks, now, issued, ncreated, fusionVars, programVars, summaryVars, emotionVars, apiVars>>

FusionIdle ==
    /\ transcription_segments = <<>>
    /\ diarization_segments = <<>>
    /\ merged_segments = <<>>
    /\ fpc = "returned"

RegInit == RegistryInit /\ FusionIdle /\ ProgramIdle /\ SummaryIdle /\ EmotionIdle /\ ApiIdle

RegNext == RegCreateTask \/ RegUpdateStatus \/ RegSaveResult \/ Tick

SpecRegistry == RegInit /\ [][RegNext]_vars

(***************************************************************************)
(* Claims about the task registry                                          *)
(***************************************************************************)
\* C7: every two create_task calls return distinct ids: as many ids have been
\* issued as calls were made.
C7_DistinctTaskIds == Cardinality(issued) = ncreated

\* C8: update_status with an id the registry does not hold does not raise and
\* changes nothing: no entry appears and every entry stays as it was.
C8_UnknownIdNoOp ==
    [][(call'.op = "update_status" /\ call'.task_id \notin DOMAIN tasks)
          => (~call'.raised /\ tasks' = tasks)]_vars

\* update_status has just been called with an unknown id on a non-empty registry
C8_Witness ==
    /\ call.op = "update_status"
    /\ call.task_id \notin DOMAIN tasks
    /\ tasks # [id \in {} |-> None]

\* C9: for a known id, update_status(id, s, progress, error) then get_status(id)
\* gives status s, the supplied progress (whatever the stored one was) and the
\* supplied error; a progress or error that is not supplied keeps its value.
C9_UpdateThenGet ==
    [][(call'.op = "update_status" /\ call'.task_id \in DOMAIN tasks)
          => /\ get_status(tasks', call'.task_id) # {}
             /\ \A task \in get_status(tasks', call'.task_id) :
                   /\ task.status = call'.status
                   /\ task.progress = IF call'.progress # NoProgress
                                      THEN call'.progress
                                      ELSE tasks[call'.task_id].progress
                   /\ task.error = IF call'.error # None
                                   THEN call'.error
                                   ELSE tasks[call'.task_id].error]_vars

\* an update without progress and error has kept a stored progress of 40 and a stored error
C9_Witness ==
    /\ call.op = "update_status"
    /\ call.task_id \in DOMAIN tasks
    /\ call.progress = NoProgress
    /\ call.error = None
    /\ tasks[call.task_id].progress = 40
    /\ tasks[call.task_id].error = "boom"

(***************************************************************************)
(* The service: analyze_meeting, process_meeting_task (src/src/api/main.py)*)
(* driving MeetingPipeline.process_meeting and the orchestrator.  A run    *)
(* takes one step per leaf-model call or agent call.                       *)
(***************************************************************************)
FirstUnused == CHOOSE r \in DOMAIN runs : runs[r].pc = "unused" /\ \A q \in 1..(r - 1) : runs[q].pc # "unused"

\* main.py:137-189, POST /api/v1/analyze for an uploaded file
Analyze ==
    /\ \E r \in DOMAIN runs : runs[r].pc = "unused"
    /\ \E file_id \in FileIds, enable_emotion \in BOOLEAN, enable_context \in BOOLEAN :
          LET c == create_task(tasks, file_id, now)
          IN /\ tasks' = c.tasks
             /\ issued' = issued \cup {c.task_id}
             /\ runs' = [runs EXCEPT ![FirstUnused] =
                            [UnusedRun EXCEPT !.pc = "queued", !.task_id = c.task_id,
                                              !.enable_emotion = enable_emotion,
                                              !.enable_context = enable_context]]
    /\ ncreated' = ncreated + 1
    /\ UNCHANGED <<files, now, call, nops, context_agent, fusionVars, summaryVars, emotionVars, apiVars>>

\* main.py:261-263
BgStart(r) ==
    /\ runs[r].pc = "queued"
    /\ tasks' = update_status(tasks, runs[r].task_id, "processing", 0, None, now).tasks
    /\ runs' = [runs EXCEPT ![r] = [@ EXCEPT !.pc = "validate", !.last_status = "processing",
                                             !.written = Append(@, 0)]]
    /\ UNCHANGED <<files, now, call, issued, ncreated, nops, context_agent, fusionVars, summaryVars, emotionVars, apiVars>>

\* pipeline.py:87-89 with the callback of main.py:273-275
Reported(r, rn, tsk, p, to) ==
    /\ tasks' = update_status(tsk, rn.task_id, "processing", p, None, now).tasks
    /\ runs' = [runs EXCEPT ![r] = [rn EXCEPT !.pc = to,
                                              !.audio = NoAudio,
                                              !.progress_log = Append(@, p),
                                              !.written = Append(@, p),
                                              !.last_status = "processing"]]

\* a failure handler that marks the task failed and calls the stage again
FailedRetrying(r, rn, tsk, msg) ==
    /\ tasks' = update_status(tsk, rn.task_id, "failed", NoProgress, msg, now).tasks
    /\ runs' = [runs EXCEPT ![r] = [rn EXCEPT !.failed_at = rn.pc,
                                              !.last_status = "failed",
                                              !.error = msg]]

\* pipeline.py:186-188 and main.py:284-286: the exception ends the run
Failed(r, rn, tsk, msg) ==
    /\ tasks' = update_status(tsk, rn.task_id, "failed", NoProgress, msg, now).tasks
    /\ runs' = [runs EXCEPT ![r] = [rn EXCEPT !.failed_at = rn.pc,
                                              !.pc = "failed",
                                              !.last_status = "failed",
                                              !.error = msg]]

\* pipeline.py:92-100
PipeValidate(r) ==
    /\ runs[r].pc = "validate"
    /\ \E audio \in AudioInputs :
          LET t5 == update_status(tasks, runs[r].task_id, "processing", 5, None, now).tasks
              rn == [runs[r] EXCEPT !.audio = audio, !.progress_log = Append(@, 5),
                                    !.written = Append(@, 5),
                                    !.invoked = Append(@, "validate")]
          IN IF validate_audio(audio, max_audio_length_minutes)
             THEN /\ tasks' = t5
                  /\ runs' = [runs EXCEPT ![r] = [rn EXCEPT !.pc = "load"]]
             ELSE Failed(r, rn, t5, ValidationMessage)
    /\ UNCHANGED <<files, now, call, issued, ncreated, nops, context_agent, fusionVars, summaryVars, emotionVars, apiVars>>

\* a stage of the pipeline: the call raises or the progress p is reported
Stage(r, from, p, to) ==
    /\ runs[r].pc = from
    /\ \E raises \in BOOLEAN :
          LET rn == [runs[r] EXCEPT !.invoked = Append(@, from)]
          IN IF raises THEN Failed(r, rn, tasks, Boom) ELSE Reported(r, rn, tasks, p, to)
    /\ UNCHANGED <<files, now, call, issued, ncreated, nops, context_agent, fusionVars, summaryVars, emotionVars, apiVars>>

\* pipeline.py:102-104
PipeLoad(r) == Stage(r, "load", 10, "preprocess")

\* pipeline.py:106-109
PipePreprocess(r) == Stage(r, "preprocess", 20, "diarize")

\* pipeline.py:111-117
PipeDiarize(r) == Stage(r, "diarize", 35, "transcribe")

\* pipeline.py:119-125
PipeTranscribe(r) == Stage(r, "transcribe", 50, "fuse")

\* pipeline.py:127-133
PipeFuse(r) == Stage(r, "fuse", 55, "emotion")

\* pipeline.py:135-143, then the entry of the orchestrator (orchestrator.py:97-107)
PipeEmotion(r) ==
    /\ runs[r].pc = "emotion"
    /\ \E raises \in BOOLEAN :
          LET rn == [runs[r] EXCEPT !.invoked = IF runs[r].enable_emotion
                                                THEN Append(@, "emotion") ELSE @]
          IN IF runs[r].enable_emotion /\ raises
             THEN Failed(r, rn, tasks, Boom)
             ELSE /\ tasks' = update_status(tasks, rn.task_id, "processing", 70, None, now).tasks
                  /\ runs' = [runs EXCEPT ![r] =
                                 [rn EXCEPT !.pc = "actions",
                                            !.progress_log = Append(@, 70),
                                            !.written = Append(@, 70),
                                            !.last_status = "processing",
                                            !.results = [meeting_id |-> rn.task_id]]]
    /\ UNCHANGED <<files, now, call, issued, ncreated, nops, context_agent, fusionVars, summaryVars, emotionVars, apiVars>>

\* one phase of the orchestrator has run: it left res, or its exception got out
PhaseDone(r, ph, raises, out, to) ==
    LET rn == [runs[r] EXCEPT !.raised_phases = IF raises THEN @ \cup {ph} ELSE @,
                              !.invoked = Append(@, ph)]
    IN IF out.raised
       THEN Failed(r, rn, tasks, Boom)
       ELSE /\ runs' = [runs EXCEPT ![r] = [rn EXCEPT !.pc = to, !.results = out.results]]
            /\ UNCHANGED tasks

\* orchestrator.py:109-116
OrchActions(r) ==
    /\ runs[r].pc = "actions"
    /\ \E raises \in BOOLEAN :
          PhaseDone(r, "actions", raises, actions_phase(runs[r].results, raises), "sentiment")
    /\ UNCHANGED <<files, now, call, issued, ncreated, nops, context_agent, fusionVars, summaryVars, emotionVars, apiVars>>

\* orchestrator.py:118-125
OrchSentiment(r) ==
    /\ runs[r].pc = "sentiment"
    /\ \E raises \in BOOLEAN :
          PhaseDone(r, "sentiment", raises, sentiment_phase(runs[r].results, raises), "context")
    /\ UNCHANGED <<files, now, call, issued, ncreated, nops, context_agent, fusionVars, summaryVars, emotionVars, apiVars>>

\* orchestrator.py:127-154, with store_context = enable_context (pipeline.py:158)
OrchContext(r) ==
    /\ runs[r].pc = "context"
    /\ \E raises \in (IF context_agent THEN BOOLEAN ELSE {FALSE}) :
          LET out == context_phase(runs[r].results, context_agent, runs[r].enable_context,
                                   raises, runs[r].store_log, vector_store(runs), r)
              rn == [runs[r] EXCEPT !.raised_phases = IF raises THEN @ \cup {"context"} ELSE @,
                                    !.store_log = out.store_log,
                                    !.context_input = out.context_input,
                                    !.retrieved = out.retrieved,
                                    !.invoked = IF context_agent
                                                THEN Append(@, "context") ELSE @]
          IN IF out.raised
             THEN Failed(r, rn, tasks, Boom)
             ELSE /\ runs' = [runs EXCEPT ![r] =
                                 [rn EXCEPT !.pc = "summary", !.results = out.results]]
                  /\ UNCHANGED tasks
    /\ UNCHANGED <<files, now, call, issued, ncreated, nops, context_agent, fusionVars, summaryVars, emotionVars, apiVars>>

\* orchestrator.py:156-160, then pipeline.py:160
OrchSummary(r) ==
    /\ runs[r].pc = "summary"
    /\ tasks' = update_status(tasks, runs[r].task_id, "processing", 90, None, now).tasks
    /\ runs' = [runs EXCEPT ![r] =
                   [@ EXCEPT !.pc = "format",
                             !.progress_log = Append(@, 90),
                             !.written = Append(@, 90),
                             !.invoked = Append(@, "summary"),
                             !.last_status = "processing",
                             !.results = Put(@, "executive_summary",
                                             generate_executive_summary(@))]]
    /\ UNCHANGED <<files, now, call, issued, ncreated, nops, context_agent, fusionVars, summaryVars, emotionVars, apiVars>>

\* a report stage that forgets the last progress value
PipeFormatNoFinal(r) ==
    /\ runs[r].pc = "format"
    /\ \E raises \in BOOLEAN :
          IF raises
          THEN Failed(r, [runs[r] EXCEPT !.invoked = Append(@, "format")], tasks, Boom)
          ELSE /\ runs' = [runs EXCEPT ![r] =
                              [@ EXCEPT !.pc = "finish",
                                        !.invoked = Append(@, "format"),
                                        !.result = format_results(runs[r].results, runs[r].task_id)]]
               /\ UNCHANGED tasks
    /\ UNCHANGED <<files, now, call, issued, ncreated, nops, context_agent, fusionVars, summaryVars, emotionVars, apiVars>>

\* pipeline.py:162-184
PipeFormat(r) ==
    /\ runs[r].pc = "format"
    /\ \E raises \in BOOLEAN :
          IF raises
          THEN Failed(r, [runs[r] EXCEPT !.invoked = Append(@, "format")], tasks, Boom)
          ELSE /\ tasks' = update_status(tasks, runs[r].task_id, "processing", 100, None, now).tasks
               /\ runs' = [runs EXCEPT ![r] =
                              [@ EXCEPT !.pc = "finish",
                                        !.invoked = Append(@, "format"),
                                        !.written = Append(@, 100),
                                        !.progress_log = Append(@, 100),
                                        !.last_status = "processing",
                                        !.result = format_results(runs[r].results, runs[r].task_id)]]
    /\ UNCHANGED <<files, now, call, issued, ncreated, nops, context_agent, fusionVars, summaryVars, emotionVars, apiVars>>

\* main.py:278-286
BgFinish(r) ==
    /\ runs[r].pc = "finish"
    /\ \E io \in IoOutcomes :
          LET s == save_result(files, runs[r].task_id, runs[r].result, io, now)
              rn == [runs[r] EXCEPT !.save_io = io]
          IN /\ files' = s.files
             /\ IF s.raised
                THEN Failed(r, rn, tasks, Boom)
                ELSE /\ tasks' = update_status(tasks, rn.task_id, "completed", 100, None, now).tasks
                     /\ runs' = [runs EXCEPT ![r] =
                                    [rn EXCEPT !.pc = "done", !.last_status = "completed",
                                               !.written = Append(@, 100)]]
    /\ UNCHANGED <<now, call, issued, ncreated, nops, context_agent, fusionVars, summaryVars, emotionVars, apiVars>>

\* The clock is read for task ids and timestamps only; it stands still in Spec
\* and is moved by SpecRegistry.
Init == RegistryInit /\ FusionIdle /\ ProgramIdle /\ SummaryIdle /\ EmotionIdle /\ ApiIdle

Next ==
    \/ Analyze
    \/ \E r \in DOMAIN runs :
          \/ BgStart(r)
          \/ PipeValidate(r)
          \/ PipeLoad(r)
          \/ PipePreprocess(r)
          \/ PipeDiarize(r)
          \/ PipeTranscribe(r)
          \/ PipeFuse(r)
          \/ PipeEmotion(r)
          \/ OrchActions(r)
          \/ OrchSentiment(r)
          \/ OrchContext(r)
          \/ OrchSummary(r)
          \/ PipeFormat(r)
          \/ BgFinish(r)

Spec == Init /\ [][Next]_vars

\* The same service when a client submits again: main.py:160-189 accepts any
\* number of POSTs for one uploaded file.
MaxResubmits == 1

ResubmitInit ==
    /\ RegistryInit
    /\ FusionIdle
    /\ context_agent = AgentOrchestrator_init(TRUE, chroma_persist_dir)
    /\ runs = [r \in 1..(MaxSubmits + MaxResubmits) |-> UnusedRun]
    /\ SummaryIdle /\ EmotionIdle /\ ApiIdle

SpecResubmit == ResubmitInit /\ [][Next]_vars

\* The service around an orchestrator built with any arguments its constructor
\* takes (orchestrator.py:20-29, 66-76)
OrchestratorInit ==
    /\ RegistryInit
    /\ FusionIdle
    /\ \E enable_context_agent \in BOOLEAN, dir \in {None, chroma_persist_dir} :
          context_agent = AgentOrchestrator_init(enable_context_agent, dir)
    /\ runs = [r \in Runs |-> UnusedRun]
    /\ SummaryIdle /\ EmotionIdle /\ ApiIdle

SpecOrchestrator == OrchestratorInit /\ [][Next]_vars

(***************************************************************************)
(* Claims about the pipeline, the orchestrator and the background task     *)
(***************************************************************************)
Last(q) == q[Len(q)]

\* the pipeline of run r has returned its report to process_meeting_task
Returned(r) == runs[r].pc \in {"finish", "done"} \/ runs[r].failed_at = "finish"

\* C4: the values a run passes to the progress callback never decrease, and a
\* run whose pipeline returned has reported 100 last, with and without emotion
\* tagging.
C4_ProgressMonotoneTo100 ==
    \A r \in DOMAIN runs :
        LET log == runs[r].progress_log
        IN /\ \A i \in 1..Len(log), j \in 1..Len(log) : i <= j => log[i] <= log[j]
           /\ Returned(r) => (log # <<>> /\ Last(log) = 100)

\* a run without emotion tagging has finished after reporting every stage
C4_Witness ==
    \E r \in DOMAIN runs :
        /\ runs[r].pc = "done"
        /\ ~runs[r].enable_emotion
        /\ runs[r].progress_log = <<5, 10, 20, 35, 50, 55, 70, 90, 100>>

\* C5: a run submitted with enable_context = FALSE issues no call, query or
\* add, against the historical-context store.
C5_NoStoreCallWhenDisabled ==
    \A r \in DOMAIN runs : ~runs[r].enable_context => runs[r].store_log = <<>>

OrchPhases == {"actions", "sentiment"} \cup (IF context_agent THEN {"context"} ELSE {})

PhasePayload(ph) ==
    CASE ph = "actions" -> ActionsPayload
      [] ph = "sentiment" -> SentimentPayload
      [] ph = "context" -> ContextPayload

\* where run r is, or was when it failed
Position(r) == IF runs[r].pc = "failed" THEN runs[r].failed_at ELSE runs[r].pc

\* the phases the orchestrator of run r has been through
PhasesDone(r) ==
    CASE Position(r) = "sentiment" -> {"actions"}
      [] Position(r) = "context" -> {"actions", "sentiment"}
      [] Position(r) \in {"summary", "format", "finish", "done"} -> OrchPhases
      [] OTHER -> {}

\* C6: a phase that raises leaves {error: message} under its own key and does
\* nothing else: the orchestrator call never fails, and every phase it has been
\* through holds the result that phase produced itself.
C6_PhaseFailureIsolated ==
    \A r \in DOMAIN runs :
        /\ runs[r].failed_at \notin {"actions", "sentiment", "context", "summary"}
        /\ \A ph \in PhasesDone(r) :
              /\ ph \in DOMAIN runs[r].results
              /\ runs[r].results[ph] = IF ph \in runs[r].raised_phases
                                       THEN ErrorMarker(Boom) ELSE PhasePayload(ph)

\* the sentiment phase alone has raised and the orchestrator has returned with
\* the results of the other two phases
C6_Witness ==
    \E r \in DOMAIN runs :
        /\ runs[r].pc = "format"
        /\ runs[r].raised_phases = {"sentiment"}
        /\ runs[r].results["sentiment"] = ErrorMarker(Boom)
        /\ runs[r].results["actions"] = ActionsPayload
        /\ runs[r].results["context"] = ContextPayload

\* C10: a save_result that fails on I/O does not fail the task: the background
\* task goes on to update_status(completed), and the entry of its task (when no
\* other run writes to the same id) says completed.
C10_SaveFailureNotPropagated ==
    \A r \in DOMAIN runs :
        runs[r].save_io \in {"open_failed", "dump_failed"} =>
            /\ runs[r].pc = "done"
            /\ runs[r].last_status = "completed"
            /\ (/\ runs[r].task_id \in DOMAIN tasks
                /\ \A q \in (DOMAIN runs) \ {r} : runs[q].task_id # runs[r].task_id)
                  => /\ tasks[runs[r].task_id].status = "completed"
                     /\ tasks[runs[r].task_id].error = None

\* a run has completed although json.dump failed halfway
C10_Witness ==
    \E r \in DOMAIN runs :
        /\ runs[r].save_io = "dump_failed"
        /\ runs[r].pc = "done"
        /\ get_status(tasks, runs[r].task_id) # {}
        /\ \A t \in get_status(tasks, runs[r].task_id) : t.status = "completed"
        /\ get_result(files, runs[r].task_id) = {}

\* C11: a task whose status is completed has a report that get_result returns,
\* and a task whose status is failed has an error and no report.
C11_TerminalMatchesStore ==
    \A id \in DOMAIN tasks :
        /\ tasks[id].status = "completed" => get_result(files, id) # {}
        /\ tasks[id].status = "failed" =>
              (tasks[id].error # None /\ get_result(files, id) = {})

Terminal == {"completed", "failed"}

\* C12: a task that is completed or failed keeps that status whatever any run
\* does next.
C12_TerminalIsAbsorbing ==
    [][\A id \in DOMAIN tasks :
          tasks[id].status \in Terminal =>
              (id \in DOMAIN tasks' /\ tasks'[id].status = tasks[id].status)]_vars

\* the recordings the validation is said to refuse
Refused(audio) ==
    \/ ~audio.exists
    \/ /\ audio.readable
       /\ \/ audio.duration > max_audio_length_minutes * 60 * 1000
          \/ audio.duration < 1000

\* C13: when the path does not exist, the recording is longer than the
\* configured maximum or shorter than one second, validate_audio returns False,
\* the run fails with an error, reports no progress above 5 and invokes no leaf
\* model and no analysis phase.
C13_ValidationFailsFast ==
    \A r \in DOMAIN runs :
        (runs[r].audio # NoAudio /\ Refused(runs[r].audio)) =>
            /\ ~validate_audio(runs[r].audio, max_audio_length_minutes)
            /\ runs[r].pc = "failed"
            /\ runs[r].failed_at = "validate"
            /\ runs[r].error # None
            /\ runs[r].last_status = "failed"
            /\ \A i \in 1..Len(runs[r].progress_log) : runs[r].progress_log[i] <= 5
            /\ runs[r].invoked = <<"validate">>

\* a recording of 999 ms has been refused after the report of 5
C13_Witness ==
    \E r \in DOMAIN runs :
        /\ runs[r].audio.exists
        /\ runs[r].audio.duration = 999
        /\ runs[r].pc = "failed"
        /\ runs[r].progress_log = <<5>>
        /\ runs[r].error = ValidationMessage

\* the stages after validation, each with the progress it reports when it
\* succeeds (pipeline.py:102-172)
StageProgress ==
    [load |-> 10, preprocess |-> 20, diarize |-> 35, transcribe |-> 50, fuse |-> 55,
     emotion |-> 70, actions |-> 90, sentiment |-> 90, context |-> 90, summary |-> 90,
     format |-> 100]

\* run r is alone on its task entry
OwnsTask(rs, r) == \A q \in (DOMAIN rs) \ {r} : rs[q].task_id # rs[r].task_id

\* C14: a stage after validation that fails ends the run: it was the last
\* stage invoked, no stage was invoked twice, every progress value reported is
\* below the one the failed stage would have reported, the task is failed, and
\* the run takes no further step.
C14_StageFailureIsFatal ==
    [][\A r \in DOMAIN runs :
          /\ runs[r].failed_at \in DOMAIN StageProgress => runs'[r] = runs[r]
          /\ runs'[r].failed_at \in DOMAIN StageProgress =>
                LET rn == runs'[r]
                IN /\ rn.pc = "failed"
                   /\ rn.last_status = "failed"
                   /\ rn.invoked # <<>> /\ Last(rn.invoked) = rn.failed_at
                   /\ \A i \in 1..Len(rn.invoked), j \in 1..Len(rn.invoked) :
                         i < j => rn.invoked[i] # rn.invoked[j]
                   /\ \A i \in 1..Len(rn.progress_log) :
                         rn.progress_log[i] < StageProgress[rn.failed_at]
                   /\ (rn.task_id \in DOMAIN tasks' /\ OwnsTask(runs', r)) =>
                         tasks'[rn.task_id].status = "failed"]_vars

\* the transcriber has raised after the diarizer reported 35
C14_Witness ==
    \E r \in DOMAIN runs :
        /\ runs[r].pc = "failed"
        /\ runs[r].failed_at = "transcribe"
        /\ runs[r].progress_log = <<5, 10, 20, 35>>
        /\ runs[r].invoked = <<"validate", "load", "preprocess", "diarize", "transcribe">>
        /\ get_status(tasks, runs[r].task_id) # {}
        /\ \A t \in get_status(tasks, runs[r].task_id) : t.status = "failed"

\* C15: the error recorded for a run that failed in a stage names that stage
\* next to the underlying message.
C15_ErrorNamesStage ==
    \A r \in DOMAIN runs :
        runs[r].pc = "failed" => runs[r].failed_at \in StagesNamedIn(runs[r].error)

\* the orchestrator call of run r has returned
OrchestratorReturned(r) == Position(r) \in {"format", "finish", "done"}

\* C16: when the orchestrator has returned, each of the keys actions, sentiment
\* and context is in its result, with a payload or an {error} marker, however
\* the orchestrator was built and whichever phases raised.
C16_PhaseKeysNeverAbsent ==
    \A r \in DOMAIN runs :
        OrchestratorReturned(r) =>
            \A ph \in {"actions", "sentiment", "context"} :
                /\ ph \in DOMAIN runs[r].results
                /\ runs[r].results[ph] \in {PhasePayload(ph), ErrorMarker(Boom)}

\* C17: with storing enabled, every run whose orchestrator has returned has
\* added the meeting to the historical-context store, the runs whose context
\* analysis raised included.
C17_StoreEvenWhenAnalysisFails ==
    \A r \in DOMAIN runs :
        (runs[r].enable_context /\ OrchestratorReturned(r)) =>
            \E i \in 1..Len(runs[r].store_log) : runs[r].store_log[i] = "add"

(***************************************************************************)
(* AgentOrchestrator._generate_executive_summary on its own: any results   *)
(* dict whose phase keys hold a payload, an {error} marker, or are absent  *)
(***************************************************************************)
MaxItems == 6
MaxDecisions == 4

Ascending(n) == [i \in 1..n |-> i]
Descending(n) == [i \in 1..n |-> n + 1 - i]

\* a dict with the key k when vs is not empty: one choice per element of vs
Keyed(k, vs) == {[x \in {k} |-> v] : v \in vs}

ActionsResults ==
    {EmptyDict, ErrorMarker(Boom)}
    \cup {[action_items |-> items, decisions |-> Ascending(m)] :
             items \in {Ascending(n) : n \in 0..MaxItems}
                       \cup {Descending(n) : n \in 2..MaxItems},
             m \in 0..MaxDecisions}

SentimentResults ==
    {ErrorMarker(Boom), SentimentPayload,
     [overall_sentiment |-> EmptyDict],
     [overall_sentiment |-> [mood |-> "tense"]]}

ContextResults ==
    {ErrorMarker(Boom), ContextPayload, [recurring_themes |-> <<>>]}

\* the arguments of _generate_executive_summary
SummaryInputs ==
    {[meeting_id |-> NoTaskId] @@ a @@ s @@ c :
        a \in {EmptyDict} \cup Keyed("actions", ActionsResults),
        s \in {EmptyDict} \cup Keyed("sentiment", SentimentResults),
        c \in {EmptyDict} \cup Keyed("context", ContextResults)}

SummaryInit ==
    /\ RegistryInit
    /\ FusionIdle
    /\ ProgramIdle
    /\ summary_results \in SummaryInputs
    /\ summary = NoneDict
    /\ EmotionIdle
    /\ ApiIdle

\* orchestrator.py:171-226, one call
Summarize ==
    /\ summary = NoneDict
    /\ summary' = generate_executive_summary(summary_results)
    /\ UNCHANGED <<summary_results, fusionVars, registryVars, programVars, emotionVars, apiVars>>

SummaryNext == Summarize

SpecSummary == SummaryInit /\ [][SummaryNext]_vars

\* the phase ph of the results has a payload: it is there and is no marker
Succeeded(results, ph) == ph \in DOMAIN results /\ "error" \notin DOMAIN results[ph]

\* the texts of the highlights of a summary
Highlights(sm) == {sm.key_highlights[i].what : i \in 1..Len(sm.key_highlights)}

\* C18: the summary is returned for every combination of payload, {error}
\* marker and absent key; it carries the counts and top items of a successful
\* action phase, the mood and tone of a successful sentiment phase and the
\* theme count of a successful context phase, and nothing of a phase that
\* failed or is missing.
C18_SummaryOmitsFailedPhases ==
    summary # NoneDict =>
        LET r == summary_results
            acts == IF Succeeded(r, "actions") THEN r["actions"] ELSE EmptyDict
            items == Get(acts, "action_items", <<>>)
            decs == Get(acts, "decisions", <<>>)
            over == IF Succeeded(r, "sentiment")
                    THEN Get(r["sentiment"], "overall_sentiment", EmptyDict) ELSE EmptyDict
            themes == IF Succeeded(r, "context")
                      THEN Get(r["context"], "recurring_themes", <<>>) ELSE <<>>
        IN /\ "key_highlights" \in DOMAIN summary
           /\ (items # <<>>) <=> ("top_actions" \in DOMAIN summary)
           /\ (items # <<>>) <=> ("action items identified" \in Highlights(summary))
           /\ (decs # <<>>) <=> ("top_decisions" \in DOMAIN summary)
           /\ (decs # <<>>) <=> ("decisions made" \in Highlights(summary))
           /\ (over # EmptyDict) <=> ("overall_mood" \in DOMAIN summary)
           /\ (over # EmptyDict) <=> ("overall_tone" \in DOMAIN summary)
           /\ (over # EmptyDict) <=> ("Meeting mood and tone" \in Highlights(summary))
           /\ (themes # <<>>) <=> ("recurring themes identified" \in Highlights(summary))

\* the actions phase failed, sentiment is missing, context succeeded: the
\* summary has the theme highlight alone
C18_Witness ==
    /\ summary # NoneDict
    /\ "actions" \in DOMAIN summary_results
    /\ summary_results["actions"] = ErrorMarker(Boom)
    /\ "sentiment" \notin DOMAIN summary_results
    /\ Succeeded(summary_results, "context")
    /\ Highlights(summary) = {"recurring themes identified"}
    /\ "top_actions" \notin DOMAIN summary

\* C19: top_actions is the first min(5, n) action items and top_decisions the
\* first min(3, m) decisions, in the order of the actions result, and the
\* highlights count all n action items and all m decisions.
C19_TopItemsInInputOrder ==
    (summary # NoneDict /\ Succeeded(summary_results, "actions")) =>
        LET items == Get(summary_results["actions"], "action_items", <<>>)
            decs == Get(summary_results["actions"], "decisions", <<>>)
            top_a == Get(summary, "top_actions", <<>>)
            top_d == Get(summary, "top_decisions", <<>>)
            hl == summary.key_highlights
        IN /\ Len(top_a) = IF Len(items) < 5 THEN Len(items) ELSE 5
           /\ \A i \in 1..Len(top_a) : top_a[i] = items[i]
           /\ Len(top_d) = IF Len(decs) < 3 THEN Len(decs) ELSE 3
           /\ \A i \in 1..Len(top_d) : top_d[i] = decs[i]
           /\ \A i \in 1..Len(hl) :
                 /\ hl[i].what = "action items identified" => hl[i].n = Len(items)
                 /\ hl[i].what = "decisions made" => hl[i].n = Len(decs)
           /\ items # <<>> => \E i \in 1..Len(hl) : hl[i].what = "action items identified"
           /\ decs # <<>> => \E i \in 1..Len(hl) : hl[i].what = "decisions made"

\* six action items in descending order and four decisions have been cut to
\* five and three
C19_Witness ==
    /\ summary # NoneDict
    /\ Succeeded(summary_results, "actions")
    /\ Get(summary_results["actions"], "action_items", <<>>) = <<6, 5, 4, 3, 2, 1>>
    /\ Get(summary_results["actions"], "decisions", <<>>) = <<1, 2, 3, 4>>
    /\ Get(summary, "top_actions", <<>>) = <<6, 5, 4, 3, 2>>
    /\ Get(summary, "top_decisions", <<>>) = <<1, 2, 3>>

\* the stage sequence of the pipeline (pipeline.py:94-172)
StageSequence == <<5, 10, 20, 35, 50, 55, 70, 90, 100>>

\* C20: the progress values a run writes to the registry for its task are
\* values of the stage sequence and strictly increase: none is written out of
\* order or twice.
C20_RegistryProgressStrictlyIncreases ==
    \A r \in DOMAIN runs :
        LET w == runs[r].written
        IN /\ \A i \in 1..Len(w) : \E k \in 1..Len(StageSequence) : w[i] = StageSequence[k]
           /\ \A i \in 1..Len(w), j \in 1..Len(w) : i < j => w[i] < w[j]

(***************************************************************************)
(* Isolation between runs and the life cycle of a task                     *)
(***************************************************************************)
\* what a table holds under key k
Entry(f, k) == IF k \in DOMAIN f THEN {f[k]} ELSE {}

\* C21: a step of one run leaves the task entry and the stored result of every
\* other submitted run as they were.
C21_RunsAreIsolated ==
    [][\A r \in DOMAIN runs, q \in DOMAIN runs :
          (r # q /\ runs'[r] # runs[r] /\ runs[q].pc # "unused") =>
              /\ Entry(tasks', runs[q].task_id) = Entry(tasks, runs[q].task_id)
              /\ Entry(files', runs[q].task_id) = Entry(files, runs[q].task_id)]_vars

\* C22: a task appears as pending with progress 0 and no error, and its status
\* then only moves from pending to processing and from processing to completed
\* or failed.
C22_StatusLifecycle ==
    [][\A id \in DOMAIN tasks' :
          IF id \notin DOMAIN tasks
          THEN /\ tasks'[id].status = "pending"
               /\ tasks'[id].progress = 0
               /\ tasks'[id].error = None
          ELSE \/ tasks'[id].status = tasks[id].status
               \/ tasks[id].status = "pending" /\ tasks'[id].status = "processing"
               \/ tasks[id].status = "processing" /\ tasks'[id].status \in Terminal]_vars

(***************************************************************************)
(* Phase failures in the persisted report                                  *)
(***************************************************************************)
\* the fields of the report that _format_results fills from each phase
PhaseFields ==
    [actions |-> {"action_items", "decisions"},
     sentiment |-> {"overall_sentiment"},
     context |-> {"context"}]

\* the report carries an error marker for the phase
MarkedInReport(report, phase) ==
    \E f \in PhaseFields[phase] : "error" \in DOMAIN report[f]

\* C23: a run with a failed analysis phase still completes its task, and the
\* report it persisted carries an error marker for each phase that failed.
C23_PhaseFailureMarkedInReport ==
    \A r \in DOMAIN runs :
        (runs[r].pc = "done" /\ runs[r].raised_phases # {}) =>
            /\ \A t \in get_status(tasks, runs[r].task_id) : t.status = "completed"
            /\ \A report \in get_result(files, runs[r].task_id) :
                  \A phase \in runs[r].raised_phases : MarkedInReport(report, phase)

(***************************************************************************)
(* The order of the analysis phases and of the store protocol              *)
(***************************************************************************)
IsPhase(stage) == stage \in {"actions", "sentiment", "context"}

\* C29: the phases of a run are invoked in the order actions, sentiment,
\* context; the input of the context phase holds exactly the action items and
\* the decisions the actions phase of that run left (empty lists when it
\* failed), and it is built only once the actions phase has left its result.
C29_ContextConsumesActions ==
    \A r \in DOMAIN runs :
        /\ SelectSeq(runs[r].invoked, IsPhase) \in
              {<<>>, <<"actions">>, <<"actions", "sentiment">>,
               <<"actions", "sentiment", "context">>}
        /\ runs[r].context_input # NoneDict =>
              /\ "actions" \in DOMAIN runs[r].results
              /\ DOMAIN runs[r].context_input = {"action_items", "decisions"}
              /\ IF "actions" \in runs[r].raised_phases
                 THEN /\ runs[r].context_input.action_items = <<>>
                      /\ runs[r].context_input.decisions = <<>>
                 ELSE /\ runs[r].context_input.action_items =
                             runs[r].results["actions"].action_items
                      /\ runs[r].context_input.decisions =
                             runs[r].results["actions"].decisions

\* the context phase has run on the two action items and the decision that the
\* actions phase extracted
C29_Witness ==
    \E r \in DOMAIN runs :
        /\ SelectSeq(runs[r].invoked, IsPhase) = <<"actions", "sentiment", "context">>
        /\ runs[r].results["actions"] = ActionsPayload
        /\ runs[r].context_input = [action_items |-> <<"a1", "a2">>, decisions |-> <<"d1">>]

\* C30: a run asks the store before it adds its own meeting and adds at most
\* once; what it retrieved is at most TopK documents of the store, and never the
\* document the run itself adds.
C30_QueryBeforeAdd ==
    \A r \in DOMAIN runs :
        /\ runs[r].store_log \in {<<>>, <<"query">>, <<"query", "add">>}
        /\ runs[r].retrieved \subseteq vector_store(runs) \ {r}
        /\ Cardinality(runs[r].retrieved) <= TopK
        /\ runs[r].store_log = <<>> => runs[r].retrieved = {}

\* a run has retrieved the five closest of the earlier summaries and then added
\* its own
C30_Witness ==
    \E r \in DOMAIN runs :
        /\ runs[r].store_log = <<"query", "add">>
        /\ Cardinality(runs[r].retrieved) = TopK
        /\ runs[r].retrieved # PriorDocs
        /\ r \in vector_store(runs)
        /\ r \notin runs[r].retrieved

(***************************************************************************)
(* HTTP endpoints (src/src/api/main.py) and the retention of the registry  *)
(***************************************************************************)
\* main.py:103 (the extensions are written without their dot)
allowed_extensions == {"wav", "mp3", "m4a", "flac", "ogg"}

\* file.filename as its dot-separated parts
Filenames == {<<"test", "txt">>, <<"talk", "wav">>, <<"talk", "WAV">>, <<"notes">>}

\* Path(name).suffix: what follows the last dot, nothing when there is no dot
suffix(name) == IF Len(name) > 1 THEN name[Len(name)] ELSE ""

\* str.lower() on the extensions that occur
lower(s) ==
    CASE s = "WAV" -> "wav"
      [] s = "TXT" -> "txt"
      [] OTHER -> s

\* main.py:101-130, the body of the try block: what it returns or raises.
\* write_fails: open() or f.write() raises, leaving the file it created.
upload_body(upl, name, file_id, write_fails) ==
    LET file_ext == lower(suffix(name))
        stored == upl \cup {[file_id |-> file_id, file_ext |-> file_ext, filename |-> name]}
    IN IF file_ext \notin allowed_extensions
       THEN [uploads |-> upl, raised |-> "HTTPException", status_code |-> 400]
       ELSE IF write_fails
       THEN [uploads |-> stored, raised |-> "OSError", status_code |-> 0]
       ELSE [uploads |-> stored, raised |-> None, status_code |-> 200]

\* an upload endpoint that lets an HTTPException through (except HTTPException: raise)
upload_audio_reraising(upl, name, file_id, write_fails) ==
    LET out == upload_body(upl, name, file_id, write_fails)
    IN [uploads |-> out.uploads,
        status_code |-> CASE out.raised = None -> 200
                          [] out.raised = "HTTPException" -> out.status_code
                          [] OTHER -> 500]

\* main.py:90-134: except Exception catches whatever the body raised, the
\* HTTPException of main.py:107 included, and raises HTTPException(500)
upload_audio(upl, name, file_id, write_fails) ==
    LET out == upload_body(upl, name, file_id, write_fails)
    IN [uploads |-> out.uploads,
        status_code |-> IF out.raised = None THEN 200 ELSE 500]

\* a status endpoint that indexes the table of tasks (KeyError, answered as 500)
get_task_status_unguarded(tsk, task_id) ==
    IF task_id \in DOMAIN tsk
    THEN [status_code |-> 200, body |-> {tsk[task_id]}]
    ELSE [status_code |-> 500, body |-> {}]

\* main.py:198-214
get_task_status(tsk, task_id) ==
    LET status == get_status(tsk, task_id)
    IN IF status = {}
       THEN [status_code |-> 404, body |-> {}]
       ELSE [status_code |-> 200, body |-> status]

\* main.py:217-239
get_analysis_result(fls, task_id) ==
    LET result == get_result(fls, task_id)
    IN IF result = {}
       THEN [status_code |-> 404, body |-> {}]
       ELSE IF \E res \in result : Get(res, "status", None) = "failed"
       THEN [status_code |-> 500, body |-> {}]
       ELSE [status_code |-> 200, body |-> result]

\* the reports handed to save_result
ApiReports == {[meeting_id |-> "m", action_items |-> <<"a1">>], [meeting_id |-> "n"]}

\* the ids a request can name now: those create_task would issue at this time
IdsNow == {make_task_id(now, file_id) : file_id \in FileIds}

ApiCreateTask ==
    /\ nops < MaxOps
    /\ \E file_id \in FileIds :
          LET r == create_task(tasks, file_id, now)
          IN /\ tasks' = r.tasks
             /\ call' = [op |-> "create_task", task_id |-> r.task_id]
    /\ nops' = nops + 1
    /\ UNCHANGED <<files, now, issued, ncreated, fusionVars, programVars, summaryVars,
                   emotionVars, apiVars>>

ApiSaveResult ==
    /\ nops < MaxOps
    /\ \E task_id \in IdsNow, result \in ApiReports, io \in IoOutcomes :
          LET r == save_result(files, task_id, result, io, now)
          IN /\ files' = r.files
             /\ call' = [op |-> "save_result", task_id |-> task_id, result |-> result,
                         io |-> io]
    /\ nops' = nops + 1
    /\ UNCHANGED <<tasks, now, issued, ncreated, fusionVars, programVars, summaryVars,
                   emotionVars, apiVars>>

\* the process is started again: main.py:50-51 builds a new TaskManager, whose
\* table is empty (tasks.py:21) and whose results directory is kept (tasks.py:22-23)
ApiRestart ==
    /\ nops < MaxOps
    /\ tasks' = [id \in {} |-> None]
    /\ call' = [op |-> "restart"]
    /\ nops' = nops + 1
    /\ UNCHANGED <<files, now, issued, ncreated, fusionVars, programVars, summaryVars,
                   emotionVars, apiVars>>

\* POST /api/v1/upload; uuid4 gives an id no stored file has
ApiUpload ==
    /\ nops < MaxOps
    /\ \E name \in Filenames, write_fails \in BOOLEAN,
          file_id \in FileIds \ {u.file_id : u \in uploads} :
          LET r == upload_audio(uploads, name, file_id, write_fails)
          IN /\ uploads' = r.uploads
             /\ response' = [status_code |-> r.status_code, body |-> {}]
             /\ call' = [op |-> "upload", filename |-> name]
    /\ nops' = nops + 1
    /\ UNCHANGED <<tasks, files, now, issued, ncreated, fusionVars, programVars, summaryVars,
                   emotionVars>>

\* GET /api/v1/status/{task_id}
ApiStatus ==
    /\ nops < MaxOps
    /\ \E task_id \in IdsNow :
          /\ response' = get_task_status(tasks, task_id)
          /\ call' = [op |-> "get_task_status", task_id |-> task_id]
    /\ nops' = nops + 1
    /\ UNCHANGED <<tasks, files, now, issued, ncreated, uploads, fusionVars, programVars,
                   summaryVars, emotionVars>>

\* GET /api/v1/result/{task_id}
ApiResult ==
    /\ nops < MaxOps
    /\ \E task_id \in IdsNow :
          /\ response' = get_analysis_result(files, task_id)
          /\ call' = [op |-> "get_analysis_result", task_id |-> task_id]
    /\ nops' = nops + 1
    /\ UNCHANGED <<tasks, files, now, issued, ncreated, uploads, fusionVars, programVars,
                   summaryVars, emotionVars>>

ApiInit == RegistryInit /\ FusionIdle /\ ProgramIdle /\ SummaryIdle /\ EmotionIdle /\ ApiIdle

ApiNext ==
    \/ ApiCreateTask
    \/ ApiSaveResult
    \/ ApiRestart
    \/ ApiUpload
    \/ ApiStatus
    \/ ApiResult
    \/ Tick

SpecApi == ApiInit /\ [][ApiNext]_vars

(***************************************************************************)
(* Claims about the endpoints and the stored results                       *)
(***************************************************************************)
\* C25: asking for the status of an id the table of tasks does not hold, or for
\* the result of an id that has neither an entry nor a result file, is answered
\* with 404, TaskManager giving None, and changes neither the table nor the files.
C25_UnknownIdIsNotFound ==
    [][/\ (call'.op = "get_task_status" /\ call'.task_id \notin DOMAIN tasks) =>
             /\ get_status(tasks, call'.task_id) = {}
             /\ response'.status_code = 404
             /\ tasks' = tasks /\ files' = files
       /\ (/\ call'.op = "get_analysis_result"
           /\ call'.task_id \notin DOMAIN tasks
           /\ call'.task_id \notin DOMAIN files) =>
             /\ get_result(files, call'.task_id) = {}
             /\ response'.status_code = 404
             /\ tasks' = tasks /\ files' = files]_vars

\* the status of an unknown id has been asked for while the registry holds
\* another task and a result
C25_Witness ==
    /\ call.op = "get_task_status"
    /\ call.task_id \notin DOMAIN tasks
    /\ tasks # [id \in {} |-> None]
    /\ files # [id \in {} |-> None]
    /\ response.status_code = 404

\* C26: an upload whose extension is not one of wav, mp3, m4a, flac, ogg is
\* answered with 400, and no file with such an extension is ever stored.
C26_BadExtensionIs400 ==
    /\ (call.op = "upload" /\ lower(suffix(call.filename)) \notin allowed_extensions) =>
           response.status_code = 400
    /\ \A u \in uploads : u.file_ext \in allowed_extensions

Restrict(f, keep) == [k \in keep |-> f[k]]

\* the ages handed to cleanup_old_tasks, max_age_days * 24 * 3600 seconds, in
\* ticks: the model takes ages of a few ticks where the code takes days
MaxAges == {0, 1}

\* tasks.py:138-162: an entry goes by the time it was created, a result file by
\* the time it was last written
cleanup_old_tasks(tsk, fls, max_age, t) ==
    LET cutoff_time == t - max_age
    IN [tasks |-> Restrict(tsk, {id \in DOMAIN tsk : ~(tsk[id].created_at < cutoff_time)}),
        files |-> Restrict(fls, {id \in DOMAIN fls : ~(fls[id].mtime < cutoff_time)})]

CleanupOldTasks ==
    /\ nops < MaxOps
    /\ \E max_age \in MaxAges :
          LET r == cleanup_old_tasks(tasks, files, max_age, now)
          IN /\ tasks' = r.tasks
             /\ files' = r.files
             /\ call' = [op |-> "cleanup_old_tasks", max_age |-> max_age]
    /\ nops' = nops + 1
    /\ UNCHANGED <<now, issued, ncreated, fusionVars, programVars, summaryVars,
                   emotionVars, apiVars>>

CleanupNext ==
    \/ ApiCreateTask
    \/ ApiSaveResult
    \/ CleanupOldTasks
    \/ Tick

SpecCleanup == ApiInit /\ [][CleanupNext]_vars

\* C28: cleanup_old_tasks removes every entry and every result older than the
\* cutoff, keeps the others as they are, and keeps or removes the entry and the
\* result of one task together.
C28_CleanupByAge ==
    [][call'.op = "cleanup_old_tasks" =>
          LET cutoff == now - call'.max_age
          IN /\ \A id \in DOMAIN tasks :
                   IF tasks[id].created_at < cutoff
                   THEN id \notin DOMAIN tasks'
                   ELSE id \in DOMAIN tasks' /\ tasks'[id] = tasks[id]
             /\ \A id \in DOMAIN files :
                   IF files[id].mtime < cutoff
                   THEN id \notin DOMAIN files'
                   ELSE id \in DOMAIN files' /\ files'[id] = files[id]
             /\ \A id \in (DOMAIN tasks) \cap (DOMAIN files) :
                   id \in DOMAIN tasks' <=> id \in DOMAIN files']_vars

\* what cleanup_old_tasks does guarantee: the two rules by age, each on its own
C28_EachByItsOwnAge ==
    [][call'.op = "cleanup_old_tasks" =>
          LET cutoff == now - call'.max_age
          IN /\ \A id \in DOMAIN tasks :
                   IF tasks[id].created_at < cutoff
                   THEN id \notin DOMAIN tasks'
                   ELSE id \in DOMAIN tasks' /\ tasks'[id] = tasks[id]
             /\ \A id \in DOMAIN files :
                   IF files[id].mtime < cutoff
                   THEN id \notin DOMAIN files'
                   ELSE id \in DOMAIN files' /\ files'[id] = files[id]]_vars

(***************************************************************************)
(* Emotion tagging: EmotionDetector.detect_emotions_for_segments           *)
(***************************************************************************)
MaxUtterances == 3

\* what the audio of an utterance makes the tagger do: the classifier gives a
\* label, classify_file raises, or writing the temporary wav file raises
Labels == {"happy", "sad"}
Taggings == Labels \cup {"classify_failed", "write_failed"}

\* the segments handed to the pass, each with the behaviour of its audio
Utterances == [text : {"u"}, tagging : Taggings]

\* emotion.py:77-125: whatever the try block raises is answered with the
\* result for an unknown emotion (confidences are in percent)
detect_emotion(tagging) ==
    IF tagging = "classify_failed"
    THEN [primary_emotion |-> "unknown", confidence |-> 0, probabilities |-> EmptyDict]
    ELSE [primary_emotion |-> tagging, confidence |-> 90,
          probabilities |-> [e \in {tagging} |-> 90]]

\* emotion.py:127-152: sf.write is outside the try block, which has no except
detect_emotion_from_array(tagging) ==
    IF tagging = "write_failed"
    THEN [raised |-> TRUE, result |-> EmptyDict]
    ELSE [raised |-> FALSE, result |-> detect_emotion(tagging)]

\* emotion.py:194-202, segment.copy() and update()
annotate(segment, emotion_result) ==
    [k \in DOMAIN segment \cup {"emotion", "emotion_confidence", "emotion_probabilities"} |->
        CASE k = "emotion" -> emotion_result.primary_emotion
          [] k = "emotion_confidence" -> emotion_result.confidence
          [] k = "emotion_probabilities" -> emotion_result.probabilities
          [] OTHER -> segment[k]]

\* emotion.py:185-204, the loop from segment i on
RECURSIVE AnnotateLoop(_, _, _)
AnnotateLoop(segments, i, annotated) ==
    IF i > Len(segments) THEN [raised |-> FALSE, segments |-> annotated]
    ELSE LET out == detect_emotion_from_array(segments[i].tagging)
         IN IF out.raised
            THEN [raised |-> TRUE, segments |-> <<>>]
            ELSE AnnotateLoop(segments, i + 1,
                              Append(annotated, annotate(segments[i], out.result)))

\* emotion.py:154-212
detect_emotions_for_segments(segments) == AnnotateLoop(segments, 1, <<>>)

DetectEmotions ==
    /\ annotated_segments = NoneDict
    /\ annotated_segments' = detect_emotions_for_segments(emotion_segments)
    /\ UNCHANGED <<emotion_segments, fusionVars, registryVars, programVars, summaryVars,
                   apiVars>>

EmotionInit ==
    /\ RegistryInit
    /\ FusionIdle
    /\ ProgramIdle
    /\ SummaryIdle
    /\ ApiIdle
    /\ emotion_segments \in SeqsUpTo(Utterances, MaxUtterances)
    /\ annotated_segments = NoneDict

EmotionNext == DetectEmotions

SpecEmotion == EmotionInit /\ [][EmotionNext]_vars

\* the tagging of the utterance failed
TaggingFailed(segment) == segment.tagging \in {"classify_failed", "write_failed"}

\* C24: the pass returns whatever tagging failed: one entry per utterance in
\* the order given, each a copy of its utterance; the other utterances carry
\* their label, and an utterance whose tagging failed has neither emotion nor
\* emotion_confidence.
C24_TaggingFailureSkipsUtterance ==
    annotated_segments # NoneDict =>
        /\ ~annotated_segments.raised
        /\ Len(annotated_segments.segments) = Len(emotion_segments)
        /\ \A i \in 1..Len(emotion_segments) :
              LET seg == emotion_segments[i]
                  out == annotated_segments.segments[i]
              IN /\ \A k \in DOMAIN seg : k \in DOMAIN out /\ out[k] = seg[k]
                 /\ IF TaggingFailed(seg)
                    THEN "emotion" \notin DOMAIN out /\ "emotion_confidence" \notin DOMAIN out
                    ELSE out.emotion = seg.tagging

\* what holds of a pass in which only the classifier fails
C24_ClassifierFailureIsUnknown ==
    (/\ annotated_segments # NoneDict
     /\ \A i \in 1..Len(emotion_segments) : emotion_segments[i].tagging # "write_failed") =>
        /\ ~annotated_segments.raised
        /\ Len(annotated_segments.segments) = Len(emotion_segments)
        /\ \A i \in 1..Len(emotion_segments) :
              LET seg == emotion_segments[i]
                  out == annotated_segments.segments[i]
              IN /\ \A k \in DOMAIN seg : k \in DOMAIN out /\ out[k] = seg[k]
                 /\ out.emotion = IF TaggingFailed(seg) THEN "unknown" ELSE seg.tagging
                 /\ TaggingFailed(seg) => out.emotion_confidence = 0

====
